---- MODULE Spec2Model ----
(***************************************************************************)
(* Holiday House Expense Splitter (src/app.py).                            *)
(*                                                                         *)
(* Two specifications over one set of variables:                           *)
(*   Spec        the Streamlit script: Calculate clicks on the three text  *)
(*               areas, the validation, aggregation, balance and           *)
(*               settlement cycle, and st.session_state['results'];        *)
(*   SettleSpec  calculate_settlements on an arbitrary balance mapping,    *)
(*               its while loop taken one iteration per step.              *)
(*                                                                         *)
(* Numbers.  Python floats are modelled as exact rationals n/d together    *)
(* with the non-finite values float() also parses: nan, inf and -inf.      *)
(* Rounding of finite values is not modelled.                              *)
(***************************************************************************)
EXTENDS Integers, Sequences, FiniteSets, TLC

VARIABLES
    families_data,   \* text area "Families": a sequence of lines
    stays_data,      \* text area "Stays"
    expenses_data,   \* text area "Expenses"
    results,         \* st.session_state['results'], or NoResults
    messages,        \* what the last script run showed through st.error
    reached,         \* how far the last Calculate cycle got
    deleted,         \* the last run executed del st.session_state['results']
    balances,        \* calculate_settlements: its argument, in items() order
    debtors,         \* calculate_settlements: list of <<family, debt>>
    creditors,       \* calculate_settlements: list of <<family, credit>>
    settlements,     \* calculate_settlements: list of <<payer, payee, amount>>
    pc               \* calculate_settlements: "idle", "loop" or "done"

appVars == <<families_data, stays_data, expenses_data, results, messages,
             reached, deleted>>
settleVars == <<balances, debtors, creditors, settlements, pc>>
vars == <<families_data, stays_data, expenses_data, results, messages,
          reached, deleted, balances, debtors, creditors, settlements, pc>>

----------------------------------------------------------------------------
(* Bounds *)

MaxFamilies == 3     \* families in a balance mapping handed to SettleSpec
MaxLines == 3        \* lines in the Stays and the Expenses text areas together

----------------------------------------------------------------------------
(* Float arithmetic: finite rationals, nan, +inf, -inf *)

Abs(i) == IF i < 0 THEN -i ELSE i

RECURSIVE GCD(_, _)
GCD(a, b) == IF b = 0 THEN a ELSE GCD(b, a % b)

\* the finite value n/d in lowest terms, d > 0
Fin(n, d) ==
    LET g == GCD(Abs(n), Abs(d))
        s == IF d < 0 THEN -1 ELSE 1
    IN  [k |-> "fin", n |-> (s * n) \div g, d |-> (s * d) \div g]

NaN == [k |-> "nan", n |-> 0, d |-> 1]
PInf == [k |-> "inf", n |-> 1, d |-> 1]
NInf == [k |-> "inf", n |-> -1, d |-> 1]
Zero == Fin(0, 1)

IsFinite(a) == a.k = "fin"

Neg(a) == IF a.k = "nan" THEN NaN ELSE [a EXCEPT !.n = -a.n]

Add(a, b) ==
    IF a.k = "nan" \/ b.k = "nan" THEN NaN
    ELSE IF a.k = "inf" /\ b.k = "inf" THEN (IF a.n = b.n THEN a ELSE NaN)
    ELSE IF a.k = "inf" THEN a
    ELSE IF b.k = "inf" THEN b
    ELSE Fin(a.n * b.d + b.n * a.d, a.d * b.d)

Sub(a, b) == Add(a, Neg(b))

\* int * float
MulInt(i, a) ==
    IF a.k = "nan" THEN NaN
    ELSE IF a.k = "inf"
         THEN (IF i = 0 THEN NaN ELSE IF i > 0 THEN a ELSE Neg(a))
    ELSE Fin(i * a.n, a.d)

\* float / int, for i # 0 (Python raises ZeroDivisionError when i = 0)
DivInt(a, i) ==
    IF a.k = "nan" THEN NaN
    ELSE IF a.k = "inf" THEN (IF i > 0 THEN a ELSE Neg(a))
    ELSE Fin(a.n, a.d * i)

\* a < b; every comparison with nan is false
Lt(a, b) ==
    IF a.k = "nan" \/ b.k = "nan" THEN FALSE
    ELSE IF a.k = "inf" THEN a.n < 0 /\ ~(b.k = "inf" /\ b.n < 0)
    ELSE IF b.k = "inf" THEN b.n > 0
    ELSE a.n * b.d < b.n * a.d

Gt(a, b) == Lt(b, a)

\* the literal 0.01 of lines 159, 161, 174, 180, 182
Tolerance == Fin(1, 100)

\* min(a, b) of two arguments: the first one unless the second is smaller
PyMin(a, b) == IF Lt(b, a) THEN b ELSE a

----------------------------------------------------------------------------
(* Families and their names; FamilyNames is in ascending string order *)

FamilyNames == <<"Adams", "Baker", "Oiler", "Smith", "Young">>

NameIndex(f) == CHOOSE i \in 1..Len(FamilyNames) : FamilyNames[i] = f

\* f < g on strings
NameLess(f, g) == NameIndex(f) < NameIndex(g)

----------------------------------------------------------------------------
(* calculate_settlements, lines 153-185 *)

IsDebtor(balance) == Lt(balance, Neg(Tolerance))

IsCreditor(balance) == Gt(balance, Tolerance)

\* lines 158-162 over the items of the mapping, in items() order
RECURSIVE PartitionDebtors(_)
PartitionDebtors(items) ==
    IF items = <<>> THEN <<>>
    ELSE LET family == Head(items)[1]
             balance == Head(items)[2]
         IN  (IF IsDebtor(balance) THEN << <<family, Neg(balance)>> >> ELSE <<>>)
             \o PartitionDebtors(Tail(items))

RECURSIVE PartitionCreditors(_)
PartitionCreditors(items) ==
    IF items = <<>> THEN <<>>
    ELSE LET family == Head(items)[1]
             balance == Head(items)[2]
         IN  (IF ~IsDebtor(balance) /\ IsCreditor(balance)
              THEN << <<family, balance>> >> ELSE <<>>)
             \o PartitionCreditors(Tail(items))

\* key(x) < key(y) for key = lambda x: (-x[1], x[0])
SortKeyLessNoName(x, y) == Lt(Neg(x[2]), Neg(y[2]))

SortKeyLessAscending(x, y) ==
    \/ Lt(x[2], y[2])
    \/ /\ x[2] = y[2]
       /\ NameLess(x[1], y[1])

SortKeyLess(x, y) ==
    \/ Lt(Neg(x[2]), Neg(y[2]))
    \/ /\ Neg(x[2]) = Neg(y[2])
       /\ NameLess(x[1], y[1])

\* list.sort is stable: x goes after every entry that is not greater
RECURSIVE InsertSorted(_, _)
InsertSorted(x, sorted) ==
    IF sorted = <<>> THEN <<x>>
    ELSE IF SortKeyLess(x, Head(sorted)) THEN <<x>> \o sorted
    ELSE <<Head(sorted)>> \o InsertSorted(x, Tail(sorted))

RECURSIVE SortFrom(_, _)
SortFrom(list, sorted) ==
    IF list = <<>> THEN sorted
    ELSE SortFrom(Tail(list), InsertSorted(Head(list), sorted))

Sort(list) == SortFrom(list, <<>>)

\* line 173
Amount(debt, credit) == PyMin(debt, credit)

\* line 174
EmitsAlways(amount) == TRUE

Emits(amount) == Gt(amount, Tolerance)

\* lines 177, 178: list[0][1] -= amount
DecrementNot(list, amount) == list

Decrement(list, amount) == [list EXCEPT ![1][2] = Sub(@, amount)]

\* lines 180-183: pop(0) when the head's remainder is below 0.01
PopSettled(list) == IF Lt(list[1][2], Tolerance) THEN Tail(list) ELSE list

\* one iteration of the while loop, lines 170-183
LoopBody(st) ==
    LET debtor   == st.debtors[1][1]
        debt     == st.debtors[1][2]
        creditor == st.creditors[1][1]
        credit   == st.creditors[1][2]
        amount   == Amount(debt, credit)
    IN  [debtors     |-> PopSettled(Decrement(st.debtors, amount)),
         creditors   |-> PopSettled(Decrement(st.creditors, amount)),
         settlements |-> IF Emits(amount)
                         THEN Append(st.settlements, <<debtor, creditor, amount>>)
                         ELSE st.settlements]

\* lines 155-167
LoopEntry(items) ==
    [debtors     |-> Sort(PartitionDebtors(items)),
     creditors   |-> Sort(PartitionCreditors(items)),
     settlements |-> <<>>]

LoopRuns(st) == st.debtors # <<>> /\ st.creditors # <<>>

\* The loop is deterministic, so an iteration that leaves the three lists as
\* they were repeats forever: the call does not return.
RECURSIVE RunLoop(_)
RunLoop(st) ==
    IF ~LoopRuns(st) THEN [returns |-> TRUE, settlements |-> st.settlements]
    ELSE LET next == LoopBody(st)
         IN  IF next = st THEN [returns |-> FALSE, settlements |-> <<>>]
             ELSE RunLoop(next)

calculate_settlements(items) == RunLoop(LoopEntry(items))

----------------------------------------------------------------------------
(* Text.  A text area holds a sequence of lines; a line is the sequence of
   its comma-separated fields (a Families line: the text before the first
   colon and the comma-separated members after it, or one field when it has
   no colon).  The empty text is the empty sequence. *)

\* str.strip on a field
Strip(field) == IF field = " " THEN "" ELSE field

\* int(field): <<TRUE, value>>, or <<FALSE, 0>> for ValueError
ParseInt(field) ==
    CASE field = "10" -> <<TRUE, 10>>
      [] field = "5"  -> <<TRUE, 5>>
      [] field = "0"  -> <<TRUE, 0>>
      [] field = "-5" -> <<TRUE, -5>>
      [] OTHER        -> <<FALSE, 0>>

\* float(field): <<TRUE, value>>, or <<FALSE, Zero>> for ValueError
ParseFloat(field) ==
    CASE field = "100" -> <<TRUE, Fin(100, 1)>>
      [] field = "50"  -> <<TRUE, Fin(50, 1)>>
      [] field = "10"  -> <<TRUE, Fin(10, 1)>>
      [] field = "-20" -> <<TRUE, Fin(-20, 1)>>
      [] field = "inf" -> <<TRUE, PInf>>
      [] field = "nan" -> <<TRUE, NaN>>
      [] OTHER         -> <<FALSE, Zero>>

\* a non-empty str is true
Truthy(text) == text # <<>>

EmptyMap == [m \in {} |-> ""]

\* lines 76-79: the members of one line, added to the mapping
RECURSIVE AddMembers(_, _, _)
AddMembers(map, family_name, members) ==
    IF members = <<>> THEN map
    ELSE LET member == Strip(Head(members))
             next == IF member # ""
                     THEN [m \in DOMAIN map \cup {member} |->
                              IF m = member THEN family_name ELSE map[m]]
                     ELSE map
         IN  AddMembers(next, family_name, Tail(members))

RECURSIVE ParseFamilyLines(_, _)
ParseFamilyLines(lines, map) ==
    IF lines = <<>> THEN map
    ELSE LET line == Head(lines)
         IN  IF Len(line) < 2 THEN ParseFamilyLines(Tail(lines), map)
             ELSE ParseFamilyLines(Tail(lines),
                                   AddMembers(map, Strip(line[1]), line[2]))

parse_families(text) == ParseFamilyLines(text, EmptyMap)

RECURSIVE parse_stays(_)
parse_stays(text) ==
    IF text = <<>> THEN <<>>
    ELSE LET parts == Head(text)
             rest == parse_stays(Tail(text))
         IN  IF Len(parts) >= 2 /\ ParseInt(Strip(parts[2]))[1]
             THEN << [member_name |-> Strip(parts[1]),
                      nights |-> ParseInt(Strip(parts[2]))[2]] >> \o rest
             ELSE rest

RECURSIVE parse_expenses(_)
parse_expenses(text) ==
    IF text = <<>> THEN <<>>
    ELSE LET parts == Head(text)
             rest == parse_expenses(Tail(text))
         IN  IF Len(parts) >= 3 /\ ParseFloat(Strip(parts[3]))[1]
             THEN << [paid_by_family |-> Strip(parts[1]),
                      expense_type |-> Strip(parts[2]),
                      amount |-> ParseFloat(Strip(parts[3]))[2],
                      description |-> IF Len(parts) > 3 THEN Strip(parts[4]) ELSE ""] >>
                  \o rest
             ELSE rest

----------------------------------------------------------------------------
(* Aggregation, lines 126-142 *)

Range(f) == {f[x] : x \in DOMAIN f}

RECURSIVE SumNights(_, _, _)
SumNights(stays, member_to_family, family) ==
    IF stays = <<>> THEN 0
    ELSE (IF member_to_family[Head(stays).member_name] = family
          THEN Head(stays).nights ELSE 0)
         + SumNights(Tail(stays), member_to_family, family)

\* member_to_family[member] raises KeyError for a member that is no key
PersonNightsRaises(stays, member_to_family) ==
    \E i \in 1..Len(stays) : stays[i].member_name \notin DOMAIN member_to_family

calculate_person_nights(stays, member_to_family) ==
    [family \in {member_to_family[stays[i].member_name] : i \in 1..Len(stays)} |->
        SumNights(stays, member_to_family, family)]

\* payments[family] += amount, in list order, from float() = 0.0
RECURSIVE SumPaid(_, _, _)
SumPaid(expenses, family, acc) ==
    IF expenses = <<>> THEN acc
    ELSE SumPaid(Tail(expenses), family,
                 IF Head(expenses).paid_by_family = family
                 THEN Add(acc, Head(expenses).amount) ELSE acc)

calculate_family_payments(expenses) ==
    [family \in {expenses[i].paid_by_family : i \in 1..Len(expenses)} |->
        SumPaid(expenses, family, Zero)]

\* sum(e['amount'] for e in expenses), line 428
RECURSIVE SumAmounts(_, _)
SumAmounts(expenses, acc) ==
    IF expenses = <<>> THEN acc
    ELSE SumAmounts(Tail(expenses), Add(acc, Head(expenses).amount))

\* sum(family_nights.values()), line 429
RECURSIVE SumOver(_, _)
SumOver(f, keys) ==
    IF keys = {} THEN 0
    ELSE LET key == CHOOSE x \in keys : TRUE
         IN  f[key] + SumOver(f, keys \ {key})

\* dict.get(key, default)
Get(f, key, default) == IF key \in DOMAIN f THEN f[key] ELSE default

----------------------------------------------------------------------------
(* The Calculate cycle, lines 391-460 *)

\* 'results' not in st.session_state
NoResults == [absent |-> TRUE]

\* lines 399-403
NoUnknownMembers(stays, member_to_family) == <<>>

unknown_members(stays, member_to_family) ==
    LET unknown(stay) == stay.member_name \notin DOMAIN member_to_family
        names(list) == [i \in 1..Len(list) |-> list[i].member_name]
    IN  names(SelectSeq(stays, unknown))

\* lines 413-417
NoUnknownFamilies(expenses, member_to_family) == <<>>

unknown_families(expenses, member_to_family) ==
    LET unknown(expense) == expense.paid_by_family \notin Range(member_to_family)
        names(list) == [i \in 1..Len(list) |-> list[i].paid_by_family]
    IN  names(SelectSeq(expenses, unknown))

\* line 433: the families the cycle computes a balance for
AllFamilies(stays, expenses, member_to_family) ==
    DOMAIN calculate_person_nights(stays, member_to_family)
        \cup DOMAIN calculate_family_payments(expenses)

\* lines 432-438: the balances in the order the set all_families is iterated in
Balances(order, family_nights, family_payments, cost_per_night) ==
    [i \in 1..Len(order) |->
        LET family == order[i]
            nights == Get(family_nights, family, 0)
            paid   == Get(family_payments, family, Zero)
            owes   == MulInt(nights, cost_per_night)
        IN  <<family, Sub(paid, owes)>>]

\* lines 408-409, 422-423, 459-460
Delete(prior) == [results |-> NoResults, deleted |-> prior # NoResults]

\* lines 426-455, entered when both validations have passed
Aggregate(member_to_family, stays, expenses, order, prior) ==
    IF PersonNightsRaises(stays, member_to_family)
    THEN [messages |-> << [kind |-> "exception", names |-> <<"KeyError">>] >>,
          reached |-> "aggregate"] @@ Delete(prior)
    ELSE
    LET family_nights   == calculate_person_nights(stays, member_to_family)
        family_payments == calculate_family_payments(expenses)
        total_expenses  == SumAmounts(expenses, Zero)
        total_nights    == SumOver(family_nights, DOMAIN family_nights)
    IN  IF total_nights = 0
        THEN [messages |-> << [kind |-> "exception",
                               names |-> <<"ZeroDivisionError">>] >>,
              reached |-> "aggregate"] @@ Delete(prior)
        ELSE
        LET cost_per_night == DivInt(total_expenses, total_nights)
            items == Balances(order, family_nights, family_payments, cost_per_night)
            call == calculate_settlements(items)
        IN  IF ~call.returns
            THEN \* the script run never ends: nothing is shown, nothing stored
                 [messages |-> <<>>, reached |-> "settle",
                  results |-> prior, deleted |-> FALSE]
            ELSE [messages |-> <<>>, reached |-> "stored", deleted |-> FALSE,
                  results |->
                     [member_to_family |-> member_to_family,
                      stays |-> stays,
                      expenses |-> expenses,
                      family_nights |-> family_nights,
                      family_payments |-> family_payments,
                      total_expenses |-> total_expenses,
                      total_nights |-> total_nights,
                      cost_per_night |-> cost_per_night,
                      balances |-> items,
                      settlements |-> call.settlements,
                      all_families |-> DOMAIN family_nights \cup DOMAIN family_payments]]

\* the whole block under "if calculate_clicked", lines 391-460; prior is
\* st.session_state['results'] before the click
Cycle(families, stays_text, expenses_text, order, prior) ==
    IF ~(Truthy(families) /\ Truthy(stays_text) /\ Truthy(expenses_text))
    THEN [messages |-> <<>>, reached |-> "skipped", results |-> prior,
          deleted |-> FALSE]
    ELSE
    LET member_to_family == parse_families(families)
        stays == parse_stays(stays_text)
        expenses == parse_expenses(expenses_text)
    IN  IF unknown_members(stays, member_to_family) # <<>>
        THEN [messages |-> << [kind |-> "unknown_members",
                               names |-> unknown_members(stays, member_to_family)] >>,
              reached |-> "members"] @@ Delete(prior)
        ELSE IF unknown_families(expenses, member_to_family) # <<>>
        THEN [messages |-> << [kind |-> "unknown_families",
                               names |-> Range(unknown_families(expenses, member_to_family))] >>,
              reached |-> "families"] @@ Delete(prior)
        ELSE Aggregate(member_to_family, stays, expenses, order, prior)

----------------------------------------------------------------------------
(* Spec: the script, one step per script run *)

\* The Families texts tried: three families, with a line that has no colon
\* and a blank member; and the empty text.
FamiliesTexts ==
    { << <<"Adams", <<"John", " ", "Mary">> >>, <<"no colon">>,
         <<"Baker", <<"Ann">> >>, <<"Oiler", <<"Bob">> >> >>,
      <<>> }

StayLines ==
    { <<"John", "10">>, <<"Bob", "5">>, <<"Bob", "-5">>, <<"Zack", "5">>,
      <<"John", "abc">>, <<"BadLine">> }

ExpenseLines ==
    { <<"Adams", "rent", "100">>, <<"Oiler", "food", "50">>,
      <<"Baker", "food", "50", "Groceries">>, <<"Nobody", "food", "10">>,
      <<"Adams", "rent", "-20">>, <<"Oiler", "food", "inf">>,
      <<"Adams", "rent", "nan">>, <<"Adams", "rent", "x">> }

SeqsUpTo(S, n) == UNION {[1..k -> S] : k \in 0..n}

StaysTexts == SeqsUpTo(StayLines, MaxLines)

\* the orders a set can be iterated in
Orders(S) ==
    {p \in [1..Cardinality(S) -> S] : \A i, j \in 1..Cardinality(S) : p[i] = p[j] => i = j}

\* the set the cycle iterates at line 434, when it gets there
IteratedFamilies(families, stays_text, expenses_text) ==
    LET member_to_family == parse_families(families)
        stays == parse_stays(stays_text)
        expenses == parse_expenses(expenses_text)
    IN  IF /\ Truthy(families) /\ Truthy(stays_text) /\ Truthy(expenses_text)
           /\ unknown_members(stays, member_to_family) = <<>>
           /\ unknown_families(expenses, member_to_family) = <<>>
           /\ ~PersonNightsRaises(stays, member_to_family)
        THEN AllFamilies(stays, expenses, member_to_family)
        ELSE {}

\* no call of calculate_settlements is modelled step by step in Spec
SettleIdle ==
    /\ balances = <<>>
    /\ debtors = <<>>
    /\ creditors = <<>>
    /\ settlements = <<>>
    /\ pc = "idle"

\* lines 346-377: the text areas hold the saved or the default texts, and no
\* result is stored
Init ==
    /\ families_data \in FamiliesTexts
    /\ stays_data \in StaysTexts
    /\ expenses_data \in SeqsUpTo(ExpenseLines, MaxLines - Len(stays_data))
    /\ results = NoResults
    /\ messages = <<>>
    /\ reached = "none"
    /\ deleted = FALSE
    /\ SettleIdle

\* a script run with calculate_clicked and the three text areas as given
Click(families, stays_text, expenses_text) ==
    \E order \in Orders(IteratedFamilies(families, stays_text, expenses_text)) :
        \E run \in {Cycle(families, stays_text, expenses_text, order, results)} :
            /\ families_data' = families
            /\ stays_data' = stays_text
            /\ expenses_data' = expenses_text
            /\ results' = run.results
            /\ messages' = run.messages
            /\ reached' = run.reached
            /\ deleted' = run.deleted
            /\ UNCHANGED settleVars

\* the user clicks Calculate
Calculate == Click(families_data, stays_data, expenses_data)

\* the user adds a line to the Stays text of a form whose other two text
\* areas are filled in, and clicks Calculate
AppendStayAndCalculate ==
    /\ Truthy(families_data) /\ Truthy(expenses_data)
    /\ Len(stays_data) + Len(expenses_data) < MaxLines
    /\ \E line \in StayLines :
          Click(families_data, Append(stays_data, line), expenses_data)

\* the user adds a line to the Expenses text of a form whose other two text
\* areas are filled in, and clicks Calculate
AppendExpenseAndCalculate ==
    /\ Truthy(families_data) /\ Truthy(stays_data)
    /\ Len(stays_data) + Len(expenses_data) < MaxLines
    /\ \E line \in ExpenseLines :
          Click(families_data, stays_data, Append(expenses_data, line))

\* the user empties one text area and clicks Calculate
ClearAndCalculate ==
    \/ /\ families_data # <<>>
       /\ Click(<<>>, stays_data, expenses_data)
    \/ /\ stays_data # <<>>
       /\ Click(families_data, <<>>, expenses_data)
    \/ /\ expenses_data # <<>>
       /\ Click(families_data, stays_data, <<>>)

\* a script run without the Calculate click (lines 462-552 only)
Rerun ==
    /\ reached # "none"
    /\ reached' = "none"
    /\ messages' = <<>>
    /\ deleted' = FALSE
    /\ UNCHANGED <<families_data, stays_data, expenses_data, results>>
    /\ UNCHANGED settleVars

Next ==
    \/ Calculate
    \/ AppendStayAndCalculate
    \/ AppendExpenseAndCalculate
    \/ ClearAndCalculate
    \/ Rerun

Spec == Init /\ [][Next]_vars

\* the application as the calls of SettleSpec find it
AppIdle ==
    /\ families_data = <<>>
    /\ stays_data = <<>>
    /\ expenses_data = <<>>
    /\ results = NoResults
    /\ messages = <<>>
    /\ reached = "none"
    /\ deleted = FALSE

----------------------------------------------------------------------------
(* SettleSpec: calculate_settlements called on any balance mapping *)

BalanceValues ==
    {Fin(-5, 1), Fin(-501, 100), Fin(-3, 1), Fin(-1, 100), Zero,
     Fin(1, 200), Fin(1, 100), Fin(1, 50), Fin(3, 1), Fin(5, 1),
     PInf, NInf, NaN}

\* the mappings over the first n family names, n <= MaxFamilies, with their
\* items in ascending or in descending order of name
BalanceMappings ==
    {[i \in 1..Len(v) |-> <<FamilyNames[IF descending THEN Len(v) + 1 - i ELSE i], v[i]>>] :
        v \in SeqsUpTo(BalanceValues, MaxFamilies), descending \in BOOLEAN}

\* the call has run lines 155-167 and stands at the while test
SettleInit ==
    /\ AppIdle
    /\ balances \in BalanceMappings
    /\ \E entry \in {LoopEntry(balances)} :
          /\ debtors = entry.debtors
          /\ creditors = entry.creditors
    /\ settlements = <<>>
    /\ pc = "loop"

LoopState == [debtors |-> debtors, creditors |-> creditors, settlements |-> settlements]

\* lines 169-183
LoopIter ==
    /\ pc = "loop"
    /\ LoopRuns(LoopState)
    /\ \E body \in {LoopBody(LoopState)} :
          /\ debtors' = body.debtors
          /\ creditors' = body.creditors
          /\ settlements' = body.settlements
    /\ UNCHANGED <<balances, pc>>
    /\ UNCHANGED appVars

\* line 185
Return ==
    /\ pc = "loop"
    /\ ~LoopRuns(LoopState)
    /\ pc' = "done"
    /\ UNCHANGED <<balances, debtors, creditors, settlements>>
    /\ UNCHANGED appVars

SettleNext == LoopIter \/ Return

SettleSpec == SettleInit /\ [][SettleNext]_vars

FairSettleSpec == SettleSpec /\ WF_vars(LoopIter) /\ WF_vars(Return)

----------------------------------------------------------------------------
(* Properties of calculate_settlements *)

Max(a, b) == IF a > b THEN a ELSE b

RECURSIVE SumValues(_)
SumValues(items) ==
    IF items = <<>> THEN Zero ELSE Add(Head(items)[2], SumValues(Tail(items)))

\* |a| <= 0.01
WithinTolerance(a) ==
    /\ IsFinite(a)
    /\ ~Lt(Fin(1, 100), a)
    /\ ~Lt(a, Fin(-1, 100))

RECURSIVE PaidBy(_, _)
PaidBy(f, list) ==
    IF list = <<>> THEN Zero
    ELSE Add(IF Head(list)[1] = f THEN Head(list)[3] ELSE Zero, PaidBy(f, Tail(list)))

RECURSIVE ReceivedBy(_, _)
ReceivedBy(f, list) ==
    IF list = <<>> THEN Zero
    ELSE Add(IF Head(list)[2] = f THEN Head(list)[3] ELSE Zero, ReceivedBy(f, Tail(list)))

\* the balance of the i-th family once every transfer of list has been made
Settled(items, i, list) ==
    Sub(Add(items[i][2], PaidBy(items[i][1], list)), ReceivedBy(items[i][1], list))

NonZeroFamilies(items) == {i \in 1..Len(items) : items[i][2] # Zero}

BalanceOf(items, f) == items[CHOOSE i \in 1..Len(items) : items[i][1] = f][2]

\* C2: when the balances sum to zero, the transfers returned leave every
\* family's balance within 0.01 of zero (stated for the mappings whose sum is
\* exactly zero, the strictest reading of "sum to zero within 0.01").
C2_SettlesEveryFamily ==
    (pc = "done" /\ SumValues(balances) = Zero)
        => \A i \in 1..Len(balances) :
               WithinTolerance(Settled(balances, i, settlements))

\* C3 as stated: the number of transfers returned is at most the number of
\* families with a non-zero balance, minus one.
C3_AtMostNonZeroMinusOne ==
    pc = "done" => Len(settlements) <= Cardinality(NonZeroFamilies(balances)) - 1

\* C3 as amended: the number of transfers is at most the number of families
\* with a non-zero balance minus one, and zero when no family has a non-zero
\* balance.
C3_AtMostNonZeroMinusOneOrZero ==
    Len(settlements) <= Max(0, Cardinality(NonZeroFamilies(balances)) - 1)

C3_Witness ==
    /\ pc = "done"
    /\ Len(settlements) = 2
    /\ Cardinality(NonZeroFamilies(balances)) = 3

\* C9: every iteration of the settlement loop removes at least one entry
\* from the debtor list or from the creditor list.
C9_EveryIterationPops ==
    [][(pc = "loop" /\ pc' = "loop")
          => Len(debtors') + Len(creditors') < Len(debtors) + Len(creditors)]_vars

\* C9: the settlement loop terminates.
C9_Terminates == <>(pc = "done")

\* C10: every transfer has a payer with balance < -0.01, a payee with
\* balance > 0.01 and an amount > 0.01; a family within 0.01 of zero is in no
\* transfer and no family is both payer and payee.
C10_TransfersWellFormed ==
    /\ \A j \in 1..Len(settlements) :
          /\ Lt(BalanceOf(balances, settlements[j][1]), Fin(-1, 100))
          /\ Lt(Fin(1, 100), BalanceOf(balances, settlements[j][2]))
          /\ Lt(Fin(1, 100), settlements[j][3])
    /\ \A i \in 1..Len(balances) :
          WithinTolerance(balances[i][2])
              => \A j \in 1..Len(settlements) :
                    /\ settlements[j][1] # balances[i][1]
                    /\ settlements[j][2] # balances[i][1]
    /\ \A j, l \in 1..Len(settlements) : settlements[j][1] # settlements[l][2]

\* a transfer was made, and an iteration whose amount was 0.01 or less made
\* none: a creditor's credit was reduced although it received nothing
C10_Witness ==
    /\ pc = "done"
    /\ Len(settlements) >= 1
    /\ \E j \in 1..Len(creditors) :
          /\ creditors[j][2] # BalanceOf(balances, creditors[j][1])
          /\ ReceivedBy(creditors[j][1], settlements) = Zero

\* f stands before g in a list sorted by descending size of the initial
\* balance, ties by ascending name
SortedBefore(f, g) ==
    LET a == BalanceOf(balances, f)
        b == BalanceOf(balances, g)
        size(v) == IF Lt(v, Zero) THEN Neg(v) ELSE v
    IN  \/ Lt(size(b), size(a))
        \/ size(a) = size(b) /\ NameIndex(f) < NameIndex(g)

ListNames(list) == [i \in 1..Len(list) |-> list[i][1]]

\* C11: the settlement list follows the one initial sort.  Each transfer
\* appended pairs the head debtor with the head creditor for the smaller of
\* their remaining debt and credit; the two lists only ever lose their head;
\* and along the settlement list the payers stand in the order of descending
\* initial debt, ties by ascending name, each payer's transfers consecutive,
\* the payees likewise by initial credit.
C11_FollowsInitialSort ==
    [][/\ settlements' # settlements
          => /\ debtors # <<>> /\ creditors # <<>>
             /\ settlements' =
                   Append(settlements,
                          <<debtors[1][1], creditors[1][1],
                            IF Lt(creditors[1][2], debtors[1][2])
                            THEN creditors[1][2] ELSE debtors[1][2]>>)
       /\ IF debtors = <<>> THEN debtors' = <<>>
          ELSE ListNames(debtors') \in {ListNames(debtors), Tail(ListNames(debtors))}
       /\ IF creditors = <<>> THEN creditors' = <<>>
          ELSE ListNames(creditors') \in {ListNames(creditors), Tail(ListNames(creditors))}
       /\ \A j, l \in 1..Len(settlements') :
             j < l =>
                /\ \/ settlements'[j][1] = settlements'[l][1]
                   \/ SortedBefore(settlements'[j][1], settlements'[l][1])
                /\ \/ settlements'[j][2] = settlements'[l][2]
                   \/ SortedBefore(settlements'[j][2], settlements'[l][2])]_vars

\* two payees with the same credit were paid in the order of their names,
\* the mapping listing them the other way round, and one payer paid both
C11_Witness ==
    /\ pc = "done"
    /\ Len(settlements) = 2
    /\ settlements[1][1] = settlements[2][1]
    /\ BalanceOf(balances, settlements[1][2]) = BalanceOf(balances, settlements[2][2])
    /\ NameIndex(settlements[1][2]) < NameIndex(settlements[2][2])
    /\ \E i, j \in 1..Len(balances) :
          /\ i < j
          /\ balances[i][1] = settlements[2][2]
          /\ balances[j][1] = settlements[1][2]

----------------------------------------------------------------------------
(* Properties of the Calculate cycle *)

\* the last script run was a Calculate click on the three text areas
Clicked == reached # "none"

\* the cycle of the last click got past line 392
CycleRan == reached \notin {"none", "skipped"}

MembersKnown(families, stays_text) ==
    \A i \in 1..Len(parse_stays(stays_text)) :
        parse_stays(stays_text)[i].member_name \in DOMAIN parse_families(families)

FamiliesKnown(families, expenses_text) ==
    \A i \in 1..Len(parse_expenses(expenses_text)) :
        parse_expenses(expenses_text)[i].paid_by_family
            \in Range(parse_families(families))

RECURSIVE TotalNights(_)
TotalNights(stays) ==
    IF stays = <<>> THEN 0 ELSE Head(stays).nights + TotalNights(Tail(stays))

AsMapping(items) ==
    [f \in {items[i][1] : i \in 1..Len(items)} |-> BalanceOf(items, f)]

\* C1: whenever an input passes validation and has total person-nights other
\* than 0, the balances the cycle computes sum to within 0.01 of zero.
C1_BalancesSumToZero ==
    reached = "stored" => WithinTolerance(SumValues(results.balances))

\* C4: a Calculate click with expenses present, every member and family
\* known, and total person-nights 0 (the Stays text empty included) ends in
\* the division-by-zero error and with no stored result set.
C4_ZeroNightsReported ==
    (/\ Clicked
     /\ parse_expenses(expenses_data) # <<>>
     /\ MembersKnown(families_data, stays_data)
     /\ FamiliesKnown(families_data, expenses_data)
     /\ TotalNights(parse_stays(stays_data)) = 0)
        => /\ messages = << [kind |-> "exception", names |-> <<"ZeroDivisionError">>] >>
           /\ results = NoResults

ResultKeys ==
    {"member_to_family", "stays", "expenses", "family_nights", "family_payments",
     "total_expenses", "total_nights", "cost_per_night", "balances",
     "settlements", "all_families"}

\* r is the whole result of a successful cycle on the three texts
CompleteResult(r, families, stays_text, expenses_text) ==
    /\ DOMAIN r = ResultKeys
    /\ Truthy(families) /\ Truthy(stays_text) /\ Truthy(expenses_text)
    /\ MembersKnown(families, stays_text)
    /\ FamiliesKnown(families, expenses_text)
    /\ TotalNights(parse_stays(stays_text)) # 0
    /\ r.member_to_family = parse_families(families)
    /\ r.stays = parse_stays(stays_text)
    /\ r.expenses = parse_expenses(expenses_text)
    /\ r.family_nights = calculate_person_nights(r.stays, r.member_to_family)
    /\ r.family_payments = calculate_family_payments(r.expenses)
    /\ r.total_expenses = SumAmounts(r.expenses, Zero)
    /\ r.total_nights = TotalNights(r.stays)
    /\ r.cost_per_night = DivInt(r.total_expenses, r.total_nights)
    /\ r.all_families = DOMAIN r.family_nights \cup DOMAIN r.family_payments
    /\ DOMAIN AsMapping(r.balances) = r.all_families
    /\ Len(r.balances) = Cardinality(r.all_families)
    /\ \A i \in 1..Len(r.balances) :
          r.balances[i][2] =
              Sub(Get(r.family_payments, r.balances[i][1], Zero),
                  MulInt(Get(r.family_nights, r.balances[i][1], 0), r.cost_per_night))
    /\ calculate_settlements(r.balances).returns
    /\ r.settlements = calculate_settlements(r.balances).settlements

\* C6: every script run leaves the stored result set as it was, deletes it,
\* or replaces it by the whole result of a successful cycle on the texts
\* clicked; a cycle that fails never writes one.
C6_ResultsAllOrNothing ==
    [][\/ results' = results
       \/ results' = NoResults
       \/ CompleteResult(results', families_data', stays_data', expenses_data')]_vars

\* a failed cycle has deleted the result set of an earlier cycle
C6_Witness ==
    /\ deleted
    /\ results = NoResults
    /\ reached \in {"members", "families", "aggregate"}

\* C7: the stored balances and settlement list are those of every other
\* order the set all_families could have been iterated in.
C7_OrderIndependent ==
    reached = "stored" =>
        \A order \in Orders(results.all_families) :
            \E again \in {Cycle(families_data, stays_data, expenses_data, order, NoResults)} :
                /\ again.reached = "stored"
                /\ again.results.settlements = results.settlements
                /\ AsMapping(again.results.balances) = AsMapping(results.balances)
                /\ again.results.total_expenses = results.total_expenses
                /\ again.results.total_nights = results.total_nights
                /\ again.results.cost_per_night = results.cost_per_night

\* three families, two of them with the same balance, were settled
C7_Witness ==
    /\ reached = "stored"
    /\ Cardinality(results.all_families) = 3
    /\ Len(results.settlements) = 2
    /\ results.settlements[1][3] = results.settlements[2][3]

\* C8: the records handed to the aggregator have nights >= 0 and amount >= 0.
C8_RecordsNonNegative ==
    reached \in {"aggregate", "settle", "stored"} =>
        /\ \A i \in 1..Len(parse_stays(stays_data)) :
              parse_stays(stays_data)[i].nights >= 0
        /\ \A i \in 1..Len(parse_expenses(expenses_data)) :
              /\ parse_expenses(expenses_data)[i].amount.k # "nan"
              /\ ~Lt(parse_expenses(expenses_data)[i].amount, Zero)

====
